---- MODULE Spec2Model ----
(***************************************************************************)
(* A model of the neurods teaching utilities (src/neurods/io.py and        *)
(* src/neurods/utils.py): the URL rewriting helpers, download_file and     *)
(* strip_answers.                                                          *)
(*                                                                         *)
(* Python strings are modelled as sequences of one-character strings, so   *)
(* that `in`, find, replace and split are computed character by character  *)
(* as Python computes them.                                                *)
(***************************************************************************)
EXTENDS Integers, Sequences, FiniteSets, TLC

VARIABLES
    url,        \* the URL handed to a URL helper (a character sequence)
    url_type,   \* url_to_interact's url_type argument
    out,        \* what the URL helper returned or raised
    nbfiles,    \* strip_answers: the file tree, [dirs, files]
    nbargs,     \* strip_answers: the arguments of the call, notebook included
    nbout,      \* strip_answers: what the call returned or raised, and wrote
    fs,         \* download_file: the file tree, path -> node
    fs0,        \* download_file: the file tree before any call began
    calls       \* download_file: each caller's call (arguments, position, result)

vars == <<url, url_type, out, nbfiles, nbargs, nbout, fs, fs0, calls>>

(***************************************************************************)
(* Bounds of the model.                                                    *)
(***************************************************************************)
\* the longest URL of the URL helpers' checks, in fragments
MaxFrags == 3
\* the longest notebook, in cells
MaxCells == 3
\* the longest cell source of the truncation check, in characters
MaxSrcLen == 3
\* the longest output_suffix of the save check, in characters
MaxSuffixLen == 5

(***************************************************************************)
(* Python's str and list operations.                                       *)
(***************************************************************************)
\* whether sub occurs in s at 0-based offset i
OccursAt(s, sub, i) ==
    /\ i >= 0
    /\ i + Len(sub) <= Len(s)
    /\ \A k \in 1..Len(sub) : s[i + k] = sub[k]

\* str.find: the lowest 0-based offset of sub in s, -1 when there is none
Find(s, sub) ==
    LET hits == {i \in 0..Len(s) : OccursAt(s, sub, i)}
    IN  IF hits = {} THEN -1 ELSE CHOOSE i \in hits : \A j \in hits : i <= j

\* the `in` operator on strings: sub in s
In(sub, s) == Find(s, sub) # -1

\* s[:n] and s[n:] for 0 <= n
Take(s, n) == SubSeq(s, 1, IF n < Len(s) THEN n ELSE Len(s))
Drop(s, n) == SubSeq(s, n + 1, Len(s))

\* str.replace(old, new) for a non-empty old: every non-overlapping occurrence,
\* left to right
RECURSIVE Replace(_, _, _)
Replace(s, old, new) ==
    LET i == Find(s, old)
    IN  IF i = -1 THEN s
        ELSE Take(s, i) \o new \o Replace(Drop(s, i + Len(old)), old, new)

\* str.split(sep) for a non-empty sep: the pieces between the occurrences
RECURSIVE Split(_, _)
Split(s, sep) ==
    LET i == Find(s, sep)
    IN  IF i = -1 THEN <<s>>
        ELSE <<Take(s, i)>> \o Split(Drop(s, i + Len(sep)), sep)

\* list.index(x): the lowest 1-based position of x in list, 0 when it is not there
\* (where Python raises ValueError)
Index(list, x) ==
    LET hits == {i \in 1..Len(list) : list[i] = x}
    IN  IF hits = {} THEN 0 ELSE CHOOSE i \in hits : \A j \in hits : i <= j

\* the last element of a non-empty list: list[-1]
Last(list) == list[Len(list)]

\* the concatenation of a sequence of strings
RECURSIVE Concat(_)
Concat(ss) == IF ss = <<>> THEN <<>> ELSE Head(ss) \o Concat(Tail(ss))

\* every sequence over S of length at most n
SeqsUpTo(S, n) == UNION {[1..k -> S] : k \in 0..n}

(***************************************************************************)
(* What a call gives back: a value or a raised exception.                  *)
(***************************************************************************)
Pending == [exc |-> "pending", msg |-> "", val |-> <<>>]
Return(v) == [exc |-> "none", msg |-> "", val |-> v]
Raise(e, m) == [exc |-> e, msg |-> m, val |-> <<>>]

(***************************************************************************)
(* The string literals of the source.                                      *)
(***************************************************************************)
DriveMarker == <<"d", "r", "i", "v", "e", ".", "g", "o", "o", "g", "l", "e", ".", "c", "o", "m">>
DropboxMarker == <<"w", "w", "w", ".", "d", "r", "o", "p", "b", "o", "x", ".", "c", "o", "m">>
DropboxDirect == <<"d", "l", ".", "d", "r", "o", "p", "b", "o", "x", "u", "s", "e", "r", "c", "o", "n", "t", "e", "n", "t", ".", "c", "o", "m">>
DriveBase == <<"h", "t", "t", "p", "s", ":", "/", "/", "d", "r", "i", "v", "e", ".", "g", "o", "o", "g", "l", "e", ".", "c", "o", "m", "/", "u", "c", "?", "e", "x", "p", "o", "r", "t", "=", "d", "o", "w", "n", "l", "o", "a", "d", "&", "i", "d", "=">>
Data8Dash == <<"d", "a", "t", "a", "-", "8">>
Data8Org == <<"d", "a", "t", "a", "8", ".", "o", "r", "g">>
GithubCom == <<"g", "i", "t", "h", "u", "b", ".", "c", "o", "m">>
GhPages == <<"g", "h", "-", "p", "a", "g", "e", "s", "/">>
LinkHead == <<"h", "t", "t", "p", "s", ":", "/", "/">>
LinkMid == <<".", "b", "e", "r", "k", "e", "l", "e", "y", ".", "e", "d", "u", "/", "h", "u", "b", "/", "i", "n", "t", "e", "r", "a", "c", "t", "?", "r", "e", "p", "o", "=">>
LinkTail == <<"&", "p", "a", "t", "h", "=">>
Slash == <<"/">>

(***************************************************************************)
(* _convert_url_to_downloadable (io.py).                                   *)
(***************************************************************************)
\* the google drive branch: the path segment after the first segment 'd'
DriveDownload(u) ==
    LET url_parts == Split(u, Slash)
        k == Index(url_parts, <<"d">>)
    IN  IF k = 0 THEN Raise("ValueError", "'d' is not in list")
        ELSE IF k + 1 > Len(url_parts)
            THEN Raise("IndexError", "list index out of range")
        ELSE Return(DriveBase \o url_parts[k + 1])

\* the dropbox branch: str.replace of the host text
DropboxDownload(u) == Return(Replace(u, DropboxMarker, DropboxDirect))

_convert_url_to_downloadable(u) ==
    IF In(DriveMarker, u) THEN DriveDownload(u)
    ELSE IF In(DropboxMarker, u) THEN DropboxDownload(u)
    ELSE Return(u)

(***************************************************************************)
(* url_to_interact (utils.py).                                             *)
(***************************************************************************)
\* the repository name and the file path of a URL that passed both checks
InteractLink(u, ut) ==
    LET repo_split == IF In(GithubCom, u) THEN Data8Dash \o Slash
                      ELSE Data8Org \o Slash
        repo == Head(Split(Last(Split(u, repo_split)), Slash))
        name_split == IF In(GithubCom, u) THEN GhPages ELSE repo \o Slash
        name == Last(Split(u, name_split))
    IN  LinkHead \o ut \o LinkMid \o repo \o LinkTail \o name

\* url_to_interact that demands both course-site markers (all for any)
InteractAllMarkers(u, ut) ==
    IF ~(In(Data8Dash, u) /\ In(Data8Org, u))
        THEN Raise("ValueError", "Provide a URL attached to a data-8 repository")
    ELSE IF ~(In(GithubCom, u) \/ In(Data8Org, u))
        THEN Raise("ValueError", "Provide a URL for github.com or data8.org")
    ELSE Return(InteractLink(u, ut))

url_to_interact(u, ut) ==
    IF ~(In(Data8Dash, u) \/ In(Data8Org, u))
        THEN Raise("ValueError", "Provide a URL attached to a data-8 repository")
    ELSE IF ~(In(GithubCom, u) \/ In(Data8Org, u))
        THEN Raise("ValueError", "Provide a URL for github.com or data8.org")
    ELSE Return(InteractLink(u, ut))

(***************************************************************************)
(* The file tree strip_answers works in.  A resolved path is a sequence of *)
(* names from the root; the process's working directory is Cwd.            *)
(***************************************************************************)
Cwd == <<<<"w">>>>
Dot == <<".">>
DotDot == <<".", ".">>

\* the parent of a resolved directory; the root is its own parent
Parent(d) == IF d = <<>> THEN <<>> ELSE SubSeq(d, 1, Len(d) - 1)

\* the kernel's walk along the names of a path from directory cur: a name is
\* looked up only in an existing directory, '' and '.' stay, '..' goes up.
\* The result is <<TRUE, resolved>> or <<FALSE, <<>>>> (no such directory).
RECURSIVE Walk(_, _, _)
Walk(dirs, cur, names) ==
    IF names = <<>> THEN <<TRUE, cur>>
    ELSE IF cur \notin dirs THEN <<FALSE, <<>>>>
    ELSE IF Head(names) \in {<<>>, Dot} THEN Walk(dirs, cur, Tail(names))
    ELSE IF Head(names) = DotDot THEN Walk(dirs, Parent(cur), Tail(names))
    ELSE Walk(dirs, cur \o <<Head(names)>>, Tail(names))

\* path resolution: '' names nothing, a leading '/' starts at the root
Resolve(dirs, p) ==
    IF p = <<>> THEN <<FALSE, <<>>>>
    ELSE Walk(dirs, IF Head(p) = "/" THEN <<>> ELSE Cwd, Split(p, Slash))

\* str.rfind('/') + 1: the length of the head of a path, its last '/' included
HeadLen(p) ==
    LET hits == {i \in 1..Len(p) : p[i] = "/"}
    IN  IF hits = {} THEN 0 ELSE CHOOSE i \in hits : \A j \in hits : j <= i

\* str.rstrip('/')
RECURSIVE RStripSlash(_)
RStripSlash(p) ==
    IF p # <<>> /\ Last(p) = "/" THEN RStripSlash(Take(p, Len(p) - 1)) ELSE p

\* os.path.basename and os.path.dirname (posixpath)
basename(p) == Drop(p, HeadLen(p))
dirname(p) ==
    LET head == Take(p, HeadLen(p))
    IN  IF RStripSlash(head) # <<>> THEN RStripSlash(head) ELSE head

\* os.path.isdir
isdir(dirs, p) ==
    LET r == Resolve(dirs, p) IN r[1] /\ r[2] \in dirs

\* the directories on the way to a resolved directory d, d included
Ancestors(d) == {SubSeq(d, 1, k) : k \in 0..Len(d)}

\* os.makedirs(p) of the tree t = [dirs, files]: <<exception, tree>>.  The
\* missing parents are made first, then the directory itself, which must not
\* exist; a file on the way stops it.
makedirs(t, p) ==
    LET names == SelectSeq(Split(p, Slash), LAMBDA n : n \notin {<<>>, Dot})
        start == IF p # <<>> /\ Head(p) = "/" THEN <<>> ELSE Cwd
        d == start \o names
        onway == Ancestors(d) \ {d}
    IN  IF p = <<>> THEN <<"FileNotFoundError", t>>
        ELSE IF \E a \in onway : a \in DOMAIN t.files
            THEN <<"NotADirectoryError",
                   [t EXCEPT !.dirs = @ \cup {a \in onway :
                       \A b \in Ancestors(a) : b \notin DOMAIN t.files}]>>
        ELSE IF d \in t.dirs \/ d \in DOMAIN t.files
            THEN <<"FileExistsError", [t EXCEPT !.dirs = @ \cup onway]>>
        ELSE <<"none", [t EXCEPT !.dirs = @ \cup Ancestors(d)]>>

\* f with x mapped to v, x added to its domain if need be
Put(f, x, v) == [y \in DOMAIN f \cup {x} |-> IF y = x THEN v ELSE f[y]]

(***************************************************************************)
(* strip_answers (io.py).  A notebook is its sequence of cells.            *)
(***************************************************************************)
NewLine == <<"\n">>

\* list.pop(i) for a 1-based position i: the list without that element
PopAt(cells, i) == SubSeq(cells, 1, i - 1) \o SubSeq(cells, i + 1, Len(cells))

\* CleanCell cutting the source before the marker instead of after it
CleanCellDropMarker(cell, a) ==
    LET ix == Find(cell.source, a.strip_string)
        c1 == IF ix # -1
              THEN [cell EXCEPT !.source = Take(cell.source, ix) \o NewLine]
              ELSE cell
        c2 == IF a.clean_outputs THEN [c1 EXCEPT !.outputs = <<>>] ELSE c1
    IN  [c2 EXCEPT !.execution_count = "None", !.prompt_number = "absent"]

\* what the loop body does to a code cell it keeps (a is the call's arguments)
CleanCell(cell, a) ==
    LET ix == Find(cell.source, a.strip_string)
        c1 == IF ix # -1
              THEN [cell EXCEPT !.source =
                        Take(cell.source, ix + Len(a.strip_string)) \o NewLine]
              ELSE cell
        c2 == IF a.clean_outputs THEN [c1 EXCEPT !.outputs = <<>>] ELSE c1
    IN  [c2 EXCEPT !.execution_count = "None", !.prompt_number = "absent"]

\* the loop over enumerate(nb['cells']) from 0-based position ii on.  The list
\* iterator reads position ii of the list as it is then, and stops once ii
\* reaches its length; a pop shortens the list under it.
RECURSIVE StripLoop(_, _, _)
StripLoop(cells, ii, a) ==
    IF ii >= Len(cells) THEN cells
    ELSE LET cell == cells[ii + 1]
         IN  IF cell.cell_type # "code" THEN StripLoop(cells, ii + 1, a)
             ELSE IF Find(cell.source, a.strip_string) # -1 /\ a.remove_cell
                 THEN StripLoop(PopAt(cells, ii + 1), ii + 1, a)
             ELSE StripLoop([cells EXCEPT ![ii + 1] = CleanCell(cell, a)],
                            ii + 1, a)

\* the path strip_answers saves to: <<exception, save directory, save_file>>
SaveFile(a) ==
    LET filename == basename(a.nbpath)
        path_save == IF a.path_save.some THEN a.path_save.v ELSE dirname(a.nbpath)
        parts == Split(filename, Dot)
        outname == parts[1] \o <<"_">> \o a.output_suffix \o Dot \o parts[2]
    IN  IF Len(parts) # 2 THEN <<"ValueError", path_save, <<>>>>
        ELSE <<"none", path_save, path_save \o Slash \o outname>>

\* the save of notebook nb under the tree t: [res, dirs, files, written]
SaveNotebook(t, nb, a) ==
    LET sf == SaveFile(a)
        md == IF isdir(t.dirs, sf[2]) THEN <<"none", t>> ELSE makedirs(t, sf[2])
        t1 == md[2]
        to == Resolve(t1.dirs, sf[3])
    IN  IF sf[1] # "none"
            THEN [res |-> Raise(sf[1], "unpack"), dirs |-> t.dirs,
                  files |-> t.files, written |-> {}]
        ELSE IF md[1] # "none"
            THEN [res |-> Raise(md[1], "makedirs"), dirs |-> t1.dirs,
                  files |-> t1.files, written |-> {}]
        ELSE IF ~to[1]
            THEN [res |-> Raise("FileNotFoundError", "open"), dirs |-> t1.dirs,
                  files |-> t1.files, written |-> {}]
        ELSE IF to[2] \in t1.dirs
            THEN [res |-> Raise("IsADirectoryError", "open"), dirs |-> t1.dirs,
                  files |-> t1.files, written |-> {}]
        ELSE [res |-> Return(nb), dirs |-> t1.dirs,
              files |-> Put(t1.files, to[2], nb), written |-> {to[2]}]

\* strip_answers on the tree t with arguments a: [res, dirs, files, written]
strip_answers(t, a) ==
    LET from == Resolve(t.dirs, a.nbpath)
        nb == StripLoop(t.files[from[2]], 0, a)
    IN  IF ~from[1] \/ from[2] \notin DOMAIN t.files
            THEN [res |-> Raise("FileNotFoundError", "read"), dirs |-> t.dirs,
                  files |-> t.files, written |-> {}]
        ELSE IF a.save THEN SaveNotebook(t, nb, a)
        ELSE [res |-> Return(nb), dirs |-> t.dirs, files |-> t.files,
              written |-> {}]

(***************************************************************************)
(* download_file (io.py).  The tree is the same [dirs, files] as above; a  *)
(* file's content is the URL it was fetched from.  What the call's         *)
(* collaborators do is modelled at their call sites: _fetch_file puts the  *)
(* remote bytes at a path in one step (it writes beside the path and       *)
(* renames), ZipFile opens the file and reads from that handle, extractall *)
(* writes the archive's member under the destination directory.            *)
(***************************************************************************)
home == <<"/", "h">>
tmpfile == home \o <<"/", "t", "m", "p", "/", "t", "m", "p">>
DataDir == home \o <<"/", "d", "a", "t", "a", "/">>
TmpDir == home \o <<"/", "t", "m", "p", "/">>
\* the name of the one member every archive of the model holds
Member == <<"m">>

\* os.path.join(a, b)
join(a, b) ==
    IF b # <<>> /\ Head(b) = "/" THEN b
    ELSE IF a = <<>> \/ Last(a) = "/" THEN a \o b
    ELSE a \o Slash \o b

\* os.path.expanduser for the current user's '~'
expanduser(p) ==
    IF p # <<>> /\ Head(p) = "~" /\ (Len(p) = 1 \/ p[2] = "/")
    THEN home \o Tail(p) ELSE p

\* os.path.exists
exists(t, p) ==
    LET r == Resolve(t.dirs, p)
    IN  r[1] /\ (r[2] \in t.dirs \/ r[2] \in DOMAIN t.files)

\* whether a file's bytes are a zip archive: the archives of the model are the
\* contents whose URL ends in 'z'
IsZip(content) == content # <<>> /\ Last(content) = "z"

\* f without x in its domain
Without(f, x) == [y \in DOMAIN f \ {x} |-> f[y]]

\* _fetch_file(url, p): <<exception, tree>>
fetch_file(t, download_path, p) ==
    LET r == Resolve(t.dirs, p)
    IN  IF ~r[1] THEN <<"FileNotFoundError", t>>
        ELSE IF r[2] \in t.dirs THEN <<"IsADirectoryError", t>>
        ELSE <<"none", [t EXCEPT !.files = Put(@, r[2], download_path)]>>

\* ZipFile(p): <<exception, the archive read>>
open_zip(t, p) ==
    LET r == Resolve(t.dirs, p)
    IN  IF ~r[1] \/ r[2] \notin DOMAIN t.files THEN <<"FileNotFoundError", <<>>>>
        ELSE IF ~IsZip(t.files[r[2]]) THEN <<"BadZipFile", <<>>>>
        ELSE <<"none", t.files[r[2]]>>

\* myzip.extractall(p): the destination is made if it does not exist, and the
\* member is written into it over whatever file has its name
extractall(t, archive, p) ==
    LET md == IF exists(t, p) THEN <<"none", t>> ELSE makedirs(t, p)
        t1 == md[2]
        to == Resolve(t1.dirs, join(p, Member))
    IN  IF md[1] # "none" THEN <<md[1], t1>>
        ELSE IF ~to[1] THEN <<"NotADirectoryError", t1>>
        ELSE IF to[2] \in t1.dirs THEN <<"IsADirectoryError", t1>>
        ELSE <<"none", [t1 EXCEPT !.files = Put(@, to[2], archive)]>>

\* os.remove(p)
remove(t, p) ==
    LET r == Resolve(t.dirs, p)
    IN  IF ~r[1] \/ r[2] \notin DOMAIN t.files THEN <<"FileNotFoundError", t>>
        ELSE <<"none", [t EXCEPT !.files = Without(@, r[2])]>>

\* a call that has not begun, and the call of arguments a at its first line
Idle ==
    [url |-> <<>>, name |-> <<>>, root_destination |-> <<>>, zipfile |-> FALSE,
     replace |-> FALSE, pc |-> "idle", download_path |-> <<>>, out_path |-> <<>>,
     myzip |-> <<>>, res |-> Pending, log |-> <<>>]
NewCall(a) ==
    [Idle EXCEPT !.url = a.url, !.name = a.name,
                 !.root_destination = a.root_destination,
                 !.zipfile = a.zipfile, !.replace = a.replace, !.pc = "start"]

\* call c ends: it raised e, or returned
Fail(c, e, m) == [c EXCEPT !.pc = "done", !.res = Raise(e, m)]
Succeed(c) == [c EXCEPT !.pc = "done", !.res = Return(c.out_path)]
\* call c goes on at pc, after the step that returned r = <<exception, tree>>
GoOn(c, r, pc, event) ==
    IF r[1] # "none" THEN <<r[2], Fail(c, r[1], event)>>
    ELSE <<r[2], [c EXCEPT !.pc = pc, !.log = Append(@, event)]>>

ConflictMsg == "Path exists, use replace=True to overwrite"
RootMsg == "Cannot overwrite the root data directory"

\* Branch without the test of the destination: replace taken as True
BranchReplaceAlways(t, c) ==
    IF c.zipfile THEN [c EXCEPT !.pc = "fetch_tmp"]
    ELSE IF Len(c.name) = 0 THEN Fail(c, "ValueError", RootMsg)
    ELSE [c EXCEPT !.pc = "fetch_out"]

\* Branch without the test of the name
BranchNameUnchecked(t, c) ==
    IF c.zipfile THEN [c EXCEPT !.pc = "fetch_tmp"]
    ELSE IF ~c.replace /\ exists(t, c.out_path)
        THEN Fail(c, "ValueError", ConflictMsg)
    ELSE [c EXCEPT !.pc = "fetch_out"]

\* lines 184 and 190-194: the mode, and the two checks of single-file mode
Branch(t, c) ==
    IF c.zipfile THEN [c EXCEPT !.pc = "fetch_tmp"]
    ELSE IF Len(c.name) = 0 THEN Fail(c, "ValueError", RootMsg)
    ELSE IF ~c.replace /\ exists(t, c.out_path)
        THEN Fail(c, "ValueError", ConflictMsg)
    ELSE [c EXCEPT !.pc = "fetch_out"]

\* lines 176-180: the URL is normalised, the destination computed, and its
\* parent directory looked for
Convert(t, c) ==
    LET dp == _convert_url_to_downloadable(c.url)
        op == expanduser(join(c.root_destination, c.name))
    IN  IF dp.exc # "none" THEN Fail(c, dp.exc, dp.msg)
        ELSE [c EXCEPT !.download_path = dp.val, !.out_path = op,
                       !.pc = IF isdir(t.dirs, dirname(op)) THEN "branch"
                              ELSE "mk_parent"]

\* lines 187 and 188 in the other order: the temporary file is deleted and
\* then read from
ExtractAfterRemove(t, c) ==
    CASE c.pc = "extract" -> GoOn(c, remove(t, tmpfile), "remove", "remove")
      [] c.pc = "remove" ->
            LET r == extractall(t, c.myzip, c.out_path)
            IN  IF r[1] # "none" THEN <<r[2], Fail(c, r[1], "extract")>>
                ELSE <<r[2], Succeed([c EXCEPT !.log = Append(@, "extract")])>>

\* lines 187-188: extract, then delete the temporary file
ExtractAndRemove(t, c) ==
    CASE c.pc = "extract" ->
            GoOn(c, extractall(t, c.myzip, c.out_path), "remove", "extract")
      [] c.pc = "remove" ->
            LET r == remove(t, tmpfile)
            IN  IF r[1] # "none" THEN <<r[2], Fail(c, r[1], "remove")>>
                ELSE <<r[2], Succeed([c EXCEPT !.log = Append(@, "remove")])>>

\* line 195: the bytes are fetched to the destination
FetchOut(t, c) ==
    CASE c.pc = "fetch_out" ->
            LET r == fetch_file(t, c.download_path, c.out_path)
            IN  IF r[1] # "none" THEN <<r[2], Fail(c, r[1], "fetch")>>
                ELSE <<r[2], Succeed([c EXCEPT !.log = Append(@, "fetch")])>>

\* one step of call c on tree t, a step being one access to the file tree
\* with the local computation that follows it: <<tree, call>>
Step(t, c) ==
    CASE c.pc = "start" ->
            <<t, [c EXCEPT !.pc = IF isdir(t.dirs, DataDir) THEN "chk_tmp"
                                  ELSE "mk_data"]>>
      [] c.pc = "mk_data" -> GoOn(c, makedirs(t, DataDir), "chk_tmp", "makedirs")
      [] c.pc = "chk_tmp" ->
            <<t, [c EXCEPT !.pc = IF isdir(t.dirs, TmpDir) THEN "convert"
                                  ELSE "mk_tmp"]>>
      [] c.pc = "mk_tmp" -> GoOn(c, makedirs(t, TmpDir), "convert", "makedirs")
      [] c.pc = "convert" -> <<t, Convert(t, c)>>
      [] c.pc = "mk_parent" ->
            LET r == makedirs(t, dirname(c.out_path))
            IN  IF r[1] # "none" THEN <<r[2], Fail(c, r[1], "makedirs")>>
                ELSE <<r[2], [c EXCEPT !.pc = "branch",
                                       !.log = Append(@, "makedirs")]>>
      [] c.pc = "branch" -> <<t, Branch(t, c)>>
      [] c.pc = "fetch_tmp" ->
            GoOn(c, fetch_file(t, c.download_path, tmpfile), "open_zip", "fetch")
      [] c.pc = "open_zip" ->
            LET r == open_zip(t, tmpfile)
            IN  IF r[1] # "none" THEN <<t, Fail(c, r[1], "ZipFile")>>
                ELSE <<t, [c EXCEPT !.pc = "extract", !.myzip = r[2]]>>
      [] c.pc \in {"extract", "remove"} -> ExtractAndRemove(t, c)
      [] OTHER -> FetchOut(t, c)

\* the whole call, run alone: its steps one after the other until it ends
RECURSIVE RunToEnd(_)
RunToEnd(s) == IF s[2].pc = "done" THEN s ELSE RunToEnd(Step(s[1], s[2]))

download_file(t, a) == RunToEnd(<<t, NewCall(a)>>)

(***************************************************************************)
(* The states before a call, and the calls.                                *)
(***************************************************************************)
NoTree == [dirs |-> {}, files |-> <<>>]
NoArgs ==
    [nbpath |-> <<>>, strip_string |-> <<>>, output_suffix |-> <<>>,
     remove_cell |-> FALSE, clean_outputs |-> FALSE, save |-> FALSE,
     path_save |-> [some |-> FALSE, v |-> <<>>]]
NoOut == [res |-> Pending, dirs |-> {}, files |-> <<>>, written |-> {}]
Callers == {1, 2}

NoUrlCall == url = <<>> /\ url_type = <<>> /\ out = Pending
NoStripCall == nbfiles = NoTree /\ nbargs = NoArgs /\ nbout = NoOut
NoDownload ==
    fs = NoTree /\ fs0 = NoTree /\ calls = [p \in Callers |-> Idle]

\* the URLs made of at most MaxFrags of the given fragments
UrlsOf(frags) == {Concat(fs_) : fs_ \in SeqsUpTo(frags, MaxFrags)}

ConvertFrags ==
    {DropboxMarker, DriveMarker, Slash, <<"d">>, <<"x">>, <<"?">>}
InteractFrags ==
    {GithubCom, Data8Dash, Data8Org, Slash, GhPages, <<"d", "a", "t", "a">>,
     <<"-", "8">>, <<"x">>}
UrlTypes == {<<"d", "a", "t", "a", "8">>, <<"d", "s", "8">>}

InitConvert ==
    /\ url \in UrlsOf(ConvertFrags)
    /\ url_type = <<>>
    /\ out = Pending
    /\ NoStripCall /\ NoDownload

InitInteract ==
    /\ url \in UrlsOf(InteractFrags)
    /\ url_type \in UrlTypes
    /\ out = Pending
    /\ NoStripCall /\ NoDownload

\* a call of _convert_url_to_downloadable
ConvertUrl ==
    /\ out = Pending
    /\ out' = _convert_url_to_downloadable(url)
    /\ UNCHANGED <<url, url_type, nbfiles, nbargs, nbout, fs, fs0, calls>>

\* a call of url_to_interact
UrlToInteract ==
    /\ out = Pending
    /\ out' = url_to_interact(url, url_type)
    /\ UNCHANGED <<url, url_type, nbfiles, nbargs, nbout, fs, fs0, calls>>

SpecConvert == InitConvert /\ [][ConvertUrl]_vars
SpecInteract == InitInteract /\ [][UrlToInteract]_vars

(***************************************************************************)
(* The notebooks strip_answers is called on.                               *)
(***************************************************************************)
\* a code cell: one that was run has outputs, an execution count and the
\* prompt_number of the older notebook format
CodeCell(src, ran) ==
    [cell_type |-> "code", source |-> src,
     outputs |-> IF ran THEN <<"out">> ELSE <<>>,
     execution_count |-> IF ran THEN "1" ELSE "None",
     prompt_number |-> IF ran THEN "1" ELSE "absent"]
MarkdownCell(src) ==
    [cell_type |-> "markdown", source |-> src, outputs |-> <<>>,
     execution_count |-> "None", prompt_number |-> "absent"]

CellsOver(sources) ==
    {CodeCell(s, r) : s \in sources, r \in BOOLEAN}
        \cup {MarkdownCell(s) : s \in sources}

Marker == <<"#", "A">>
NbDir == Cwd \o <<<<"d">>>>
NbPath == <<"d", "/", "n", ".", "e">>
NbFile == NbDir \o <<<<"n", ".", "e">>>>
None == [some |-> FALSE, v |-> <<>>]
Some(v) == [some |-> TRUE, v |-> v]

\* notebooks of up to MaxCells cells, with and without the marker
InitCells ==
    /\ \E nb \in SeqsUpTo(CellsOver({<<"x">>, <<"#", "A", "y">>}), MaxCells) :
           nbfiles = [dirs |-> {<<>>, Cwd, NbDir}, files |-> Put(<<>>, NbFile, nb)]
    /\ \E rc \in BOOLEAN, co \in BOOLEAN, sv \in BOOLEAN :
           nbargs = [nbpath |-> NbPath, strip_string |-> Marker,
                     output_suffix |-> <<"s">>, remove_cell |-> rc,
                     clean_outputs |-> co, save |-> sv, path_save |-> None]
    /\ nbout = NoOut
    /\ NoUrlCall /\ NoDownload

\* one code cell and at most one cell after it, of every source of up to
\* MaxSrcLen characters, and three marker strings
InitSources ==
    /\ \E s1 \in SeqsUpTo({"#", "x"}, MaxSrcLen), r \in BOOLEAN,
          rest \in SeqsUpTo(CellsOver({<<"#", "x">>}), 1) :
           nbfiles = [dirs |-> {<<>>, Cwd, NbDir},
                      files |-> Put(<<>>, NbFile, <<CodeCell(s1, r)>> \o rest)]
    /\ \E m \in {<<>>, <<"#">>, <<"#", "x">>}, rc \in BOOLEAN, co \in BOOLEAN :
           nbargs = [nbpath |-> NbPath, strip_string |-> m,
                     output_suffix |-> <<"s">>, remove_cell |-> rc,
                     clean_outputs |-> co, save |-> FALSE, path_save |-> None]
    /\ nbout = NoOut
    /\ NoUrlCall /\ NoDownload

NbPaths ==
    {NbPath, <<"n", ".", "e">>, <<"d", "/", "n">>, <<"d", "/", "n", ".", "e", ".", "e">>}
PathSaves == {None, Some(<<"d">>), Some(<<"o">>), Some(<<"d", "/">>)}

\* one notebook under every name, output_suffix of up to MaxSuffixLen
\* characters and save directory; the directory d/n_ may exist
InitPaths ==
    /\ \E np \in NbPaths, more \in SUBSET {NbDir \o <<<<"n", "_">>>>} :
           /\ nbfiles = [dirs |-> {<<>>, Cwd, NbDir} \cup more,
                         files |-> Put(<<>>, Resolve({<<>>, Cwd, NbDir}, np)[2],
                                       <<CodeCell(<<"#", "A", "y">>, TRUE)>>)]
           /\ \E sfx \in SeqsUpTo({"n", ".", "/"}, MaxSuffixLen),
                 ps \in PathSaves, sv \in BOOLEAN :
                  nbargs = [nbpath |-> np, strip_string |-> Marker,
                            output_suffix |-> sfx, remove_cell |-> FALSE,
                            clean_outputs |-> TRUE, save |-> sv, path_save |-> ps]
    /\ nbout = NoOut
    /\ NoUrlCall /\ NoDownload

InitStrip == InitCells \/ InitSources \/ InitPaths

\* a call of strip_answers
StripAnswers ==
    /\ nbout.res = Pending
    /\ nbout' = strip_answers(nbfiles, nbargs)
    /\ UNCHANGED <<url, url_type, out, nbfiles, nbargs, fs, fs0, calls>>

SpecStrip == InitStrip /\ [][StripAnswers]_vars

(***************************************************************************)
(* The trees and the arguments download_file is called with.               *)
(***************************************************************************)
Home == <<<<"h">>>>
Data == Home \o <<<<"d", "a", "t", "a">>>>
Tmp == Home \o <<<<"t", "m", "p">>>>
TmpFile == Tmp \o <<<<"t", "m", "p">>>>
DestA == Data \o <<<<"a">>>>
Sub == Data \o <<<<"n">>>>
Old == <<"o", "l", "d">>
StaleZip == <<"o", "l", "d", "z">>

\* the union of trees that share no file
Graft(t, u) ==
    [dirs |-> t.dirs \cup u.dirs,
     files |-> [x \in DOMAIN t.files \cup DOMAIN u.files |->
                   IF x \in DOMAIN t.files THEN t.files[x] ELSE u.files[x]]]
Dirs(ds) == [dirs |-> ds, files |-> <<>>]
File(x, content) == [dirs |-> {}, files |-> Put(<<>>, x, content)]

\* ~/tmp: absent, a file, or a directory with or without a left-over tmp file
TmpTrees ==
    {NoTree, File(Tmp, Old), Dirs({Tmp}), Graft(Dirs({Tmp}), File(TmpFile, StaleZip))}
\* ~/data/a: absent, a file, or a directory of an archive extracted earlier
DestTrees ==
    {NoTree, File(DestA, Old), Dirs({DestA}),
     Graft(Dirs({DestA}), File(DestA \o <<Member>>, Old))}
\* ~/data/n: absent, or a directory with or without a file a
SubTrees == {NoTree, Dirs({Sub}), Graft(Dirs({Sub}), File(Sub \o <<<<"a">>>>, Old))}
\* ~/data: absent, or a directory of the above
DataTrees ==
    {NoTree} \cup {Graft(Dirs({Data}), Graft(d, n)) : d \in DestTrees, n \in SubTrees}
Trees == {Graft(Dirs({<<>>, Home}), Graft(d, t)) : d \in DataTrees, t \in TmpTrees}

PlainUrl == <<"u", "/", "f">>
ZipUrl == <<"u", "/", "z">>
OtherZipUrl == <<"v", "/", "z">>
DownloadUrls ==
    {PlainUrl, ZipUrl, DropboxMarker \o <<"/", "z">>,
     DriveMarker \o <<"/", "d", "/", "z">>, DriveMarker \o <<"/", "z">>,
     DriveMarker \o <<"/", "d">>}
DefaultRoot == <<"~", "/", "d", "a", "t", "a", "/">>
Roots == {DefaultRoot, DefaultRoot \o <<"n", "/">>}
Names == {<<>>, <<"a">>, <<"b">>}

Args(urls, names, roots) ==
    [url : urls, name : names, root_destination : roots, zipfile : BOOLEAN,
     replace : BOOLEAN]

Init ==
    /\ fs \in Trees
    /\ fs0 = fs
    /\ calls = [p \in Callers |-> Idle]
    /\ NoUrlCall /\ NoStripCall

\* a call of download_file, run alone from its first line to its last
DownloadFile ==
    /\ calls[1].pc = "idle"
    /\ \E a \in Args(DownloadUrls, Names, Roots) :
           LET r == download_file(fs, a)
           IN  /\ fs' = r[1]
               /\ calls' = [calls EXCEPT ![1] = r[2]]
    /\ UNCHANGED <<url, url_type, out, nbfiles, nbargs, nbout, fs0>>

Next == DownloadFile
Spec == Init /\ [][Next]_vars

(***************************************************************************)
(* Two callers at once: each runs its call step by step, in any order.     *)
(***************************************************************************)
ConcTrees ==
    {Graft(Dirs({<<>>, Home}), Graft(d, t)) :
        d \in {NoTree, Dirs({Data}), Graft(Dirs({Data}), File(DestA, Old))},
        t \in {NoTree, Dirs({Tmp})}}

\* what the two callers ask for: the same or another URL, the same or another
\* destination
ConcUrls(p) == IF p = 1 THEN {ZipUrl} ELSE {ZipUrl, OtherZipUrl}
ConcNames(p) == IF p = 1 THEN {<<"a">>} ELSE {<<"a">>, <<"b">>}

InitConc ==
    /\ fs \in ConcTrees
    /\ fs0 = fs
    /\ calls = [p \in Callers |-> Idle]
    /\ NoUrlCall /\ NoStripCall

\* caller p calls download_file
Begin(p) ==
    /\ calls[p].pc = "idle"
    /\ \E a \in Args(ConcUrls(p), ConcNames(p), {DefaultRoot}) :
           calls' = [calls EXCEPT ![p] = NewCall(a)]
    /\ UNCHANGED <<url, url_type, out, nbfiles, nbargs, nbout, fs, fs0>>

\* caller p's call takes its next step
StepCall(p) ==
    /\ calls[p].pc \notin {"idle", "done"}
    /\ LET r == Step(fs, calls[p])
       IN  /\ fs' = r[1]
           /\ calls' = [calls EXCEPT ![p] = r[2]]
    /\ UNCHANGED <<url, url_type, out, nbfiles, nbargs, nbout, fs0>>

NextConc == \E p \in Callers : Begin(p) \/ StepCall(p)
SpecConc == InitConc /\ [][NextConc]_vars

(***************************************************************************)
(* The claims.                                                             *)
(***************************************************************************)
UrlDone == out # Pending
HasCourseMarker == In(Data8Dash, url) \/ In(Data8Org, url)
HasKnownHost == In(GithubCom, url) \/ In(Data8Org, url)

\* C8: on a dropbox link (the URL contains 'www.dropbox.com' and not
\* 'drive.google.com') only the host, the first 'www.dropbox.com', is replaced
\* by 'dl.dropboxusercontent.com'; all that follows it is kept as it is.
C8_OnlyHostReplaced ==
    (UrlDone /\ In(DropboxMarker, url) /\ ~In(DriveMarker, url)) =>
        LET i == Find(url, DropboxMarker)
        IN  /\ out.exc = "none"
            /\ out.val = Take(url, i) \o DropboxDirect
                             \o Drop(url, i + Len(DropboxMarker))

\* C9: url_to_interact raises ValueError for a URL with neither course-site
\* marker and for one with a marker but neither known host; for every other
\* URL it returns a link and raises nothing.
C9_InteractErrors ==
    UrlDone =>
        IF HasCourseMarker /\ HasKnownHost
        THEN /\ out.exc = "none"
             /\ Take(out.val, Len(LinkHead \o url_type \o LinkMid))
                    = LinkHead \o url_type \o LinkMid
        ELSE out.exc = "ValueError"

\* C9's case: a URL with a course-site marker and no known host was refused
C9_Witness ==
    /\ UrlDone /\ HasCourseMarker /\ ~HasKnownHost
    /\ out.exc = "ValueError"

\* the notebook strip_answers read, and the one it returned
StripReturned == nbout.res.exc = "none"
InputCells == nbfiles.files[Resolve(nbfiles.dirs, nbargs.nbpath)[2]]
OutputCells == nbout.res.val
\* a code cell whose source contains the marker string
Matches(cell) ==
    /\ cell.cell_type = "code"
    /\ \E k \in 0..Len(cell.source) : OccursAt(cell.source, nbargs.strip_string, k)

\* C3: with remove_cell=True every code cell with the marker is absent from the
\* returned cells, there is one cell less per such cell, and the other cells
\* are kept in their order.
C3_EveryMatchRemoved ==
    (StripReturned /\ nbargs.remove_cell) =>
        LET kept == SelectSeq(InputCells, LAMBDA c : ~Matches(c))
        IN  /\ Len(OutputCells) = Len(kept)
            /\ \A i \in 1..Len(OutputCells) :
                   /\ i <= Len(kept)
                   /\ ~Matches(OutputCells[i])
                   /\ OutputCells[i].cell_type = kept[i].cell_type
                   /\ OutputCells[i].source = kept[i].source

\* C4: with clean_outputs=True every code cell of the returned notebook has no
\* outputs, no execution count and no prompt_number.
C4_SurvivorsClean ==
    (StripReturned /\ nbargs.clean_outputs) =>
        \A i \in 1..Len(OutputCells) :
            OutputCells[i].cell_type = "code" =>
                /\ OutputCells[i].outputs = <<>>
                /\ OutputCells[i].execution_count = "None"
                /\ OutputCells[i].prompt_number = "absent"

\* the source cut after the first occurrence of the marker, a newline added
CutAfterMarker(src, k) ==
    SubSeq(src, 1, k + Len(nbargs.strip_string)) \o NewLine

\* C5: with remove_cell=False the source of a code cell with the marker is the
\* original up to and including the first marker, then one newline; every other
\* cell keeps its source.
C5_TruncatedAfterMarker ==
    (StripReturned /\ ~nbargs.remove_cell) =>
        /\ Len(OutputCells) = Len(InputCells)
        /\ \A i \in 1..Len(InputCells) :
               LET before == InputCells[i].source
                   after == OutputCells[i].source
               IN  IF Matches(InputCells[i])
                   THEN \E k \in 0..Len(before) :
                           /\ OccursAt(before, nbargs.strip_string, k)
                           /\ \A j \in 0..(k - 1) :
                                  ~OccursAt(before, nbargs.strip_string, j)
                           /\ after = CutAfterMarker(before, k)
                   ELSE after = before

\* C5's case: a cell with text after the marker, and a second marker in it
C5_Witness ==
    /\ StripReturned /\ ~nbargs.remove_cell
    /\ nbargs.strip_string = <<"#">>
    /\ InputCells[1].source = <<"x", "#", "#">>
    /\ OutputCells[1].source = <<"x", "#", "\n">>

\* where the notebook is, and where {basename}_{suffix}.{ext} is
OriginalFile == Resolve(nbfiles.dirs, nbargs.nbpath)[2]
SuffixedName ==
    LET parts == Split(basename(nbargs.nbpath), Dot)
    IN  parts[1] \o <<"_">> \o nbargs.output_suffix \o Dot \o parts[2]
SaveDir ==
    IF nbargs.path_save.some THEN nbargs.path_save.v ELSE dirname(nbargs.nbpath)
StripDone == nbout.res # Pending
\* the file at nbpath is as it was, and of the files there were only those
\* written changed
OriginalKept ==
    /\ OriginalFile \notin nbout.written
    /\ \A x \in DOMAIN nbfiles.files :
           /\ x \in DOMAIN nbout.files
           /\ x \notin nbout.written => nbout.files[x] = nbfiles.files[x]
\* nothing is written without save; with it, only the file that the path
\* {save directory}/{basename}_{suffix}.{ext} names
OnlySuffixedWritten ==
    /\ ~nbargs.save => nbout.written = {}
    /\ \A x \in nbout.written :
           x = Resolve(nbout.dirs, SaveDir \o Slash \o SuffixedName)[2]

\* C6 as claimed: for every nbpath, output_suffix and path_save the call
\* writes no file but {basename}_{suffix}.{ext}, and never the notebook itself.
C6_OriginalNeverWritten == StripDone => (OriginalKept /\ OnlySuffixedWritten)

\* where C6 does hold: every output_suffix without a '/'
C6_OriginalKeptPlainSuffix ==
    (StripDone /\ ~In(Slash, nbargs.output_suffix)) =>
        (OriginalKept /\ OnlySuffixedWritten)

\* the one call of the sequential specification, once it has ended
Call == calls[1]
CallDone == Call.pc = "done"
DestPath(c) == expanduser(join(c.root_destination, c.name))
Fetched(c) == \E i \in 1..Len(c.log) : c.log[i] = "fetch"
IsConflict(res) == res.exc = "ValueError" /\ res.msg = ConflictMsg
\* the steps before the tests of single-file mode cannot fail: the URL
\* normalises and no file is in the way of ~/tmp
SetupWorks(c) ==
    /\ _convert_url_to_downloadable(c.url).exc = "none"
    /\ Tmp \notin DOMAIN fs0.files
\* a single-file call without replace whose destination was there before it
ConflictCase ==
    /\ CallDone /\ ~Call.zipfile /\ ~Call.replace /\ Call.name # <<>>
    /\ exists(fs0, DestPath(Call))

\* C1 as claimed: such a call raises the conflict ValueError, fetches nothing
\* and leaves every file as it was, for every URL and every tree.
C1_ConflictRaised ==
    ConflictCase =>
        /\ IsConflict(Call.res)
        /\ ~Fetched(Call)
        /\ fs.files = fs0.files

\* C1 as amended: such a call raises an error, fetches nothing and leaves every
\* file as it was; the error is the conflict ValueError whenever the steps
\* before the test do not fail.
C1_ConflictOrEarlierError ==
    ConflictCase =>
        /\ Call.res.exc # "none"
        /\ ~Fetched(Call)
        /\ fs.files = fs0.files
        /\ SetupWorks(Call) => IsConflict(Call.res)

\* C1's case: the destination was a file and the call was refused
C1_Witness ==
    /\ ConflictCase /\ IsConflict(Call.res)
    /\ DestPath(Call) = home \o <<"/", "d", "a", "t", "a", "/", "a">>
    /\ DestA \in DOMAIN fs0.files

\* a single-file call with an empty name
EmptyNameCase == CallDone /\ ~Call.zipfile /\ Call.name = <<>>
RootError(res) == res.exc = "ValueError" /\ res.msg = RootMsg
\* the directory root_destination names, and those on the way to it
RootDirs ==
    LET r == Resolve(fs.dirs, expanduser(Call.root_destination))
    IN  IF r[1] THEN Ancestors(r[2]) ELSE {}

\* C2 as claimed: a single-file call with an empty name raises the
\* invalid-input ValueError before any directory but ~/data and ~/tmp is made,
\* and fetches nothing, for every root_destination (looked at where the steps
\* before the test cannot fail).
C2_NoDirectoryBeforeError ==
    (EmptyNameCase /\ SetupWorks(Call)) =>
        /\ RootError(Call.res)
        /\ fs.dirs \subseteq fs0.dirs \cup {Data, Tmp}
        /\ ~Fetched(Call)
        /\ fs.files = fs0.files

\* C2 as amended: such a call raises an error, the invalid-input ValueError
\* whenever the steps before the test do not fail, and fetches nothing; the
\* directories it makes are ~/data, ~/tmp and the directory of root_destination.
C2_ErrorAfterRootDirectory ==
    EmptyNameCase =>
        /\ Call.res.exc # "none"
        /\ SetupWorks(Call) => RootError(Call.res)
        /\ fs.dirs \subseteq fs0.dirs \cup {Data, Tmp} \cup RootDirs
        /\ ~Fetched(Call)
        /\ fs.files = fs0.files

\* C2's case: the directory of root_destination did not exist; the call made
\* it and then raised
C2_Witness ==
    /\ EmptyNameCase /\ RootError(Call.res)
    /\ Sub \notin fs0.dirs /\ Sub \in fs.dirs

\* the steps of a call that fetch, extract or delete, in the order taken
IOSteps(c) == SelectSeq(c.log, LAMBDA e : e # "makedirs")

\* C7: an archive call that returns has fetched to ~/tmp/tmp, then extracted,
\* then deleted the temporary file, which is gone when it returns; and no
\* archive call raises the conflict error.
C7_ArchiveOrder ==
    (CallDone /\ Call.zipfile) =>
        /\ ~IsConflict(Call.res)
        /\ Call.res.exc = "none" =>
               /\ IOSteps(Call) = <<"fetch", "extract", "remove">>
               /\ ~exists(fs, tmpfile)

\* C7's case: an archive call without replace returned, over a member that an
\* earlier extraction had left in the destination
C7_Witness ==
    /\ CallDone /\ Call.zipfile /\ ~Call.replace /\ Call.res.exc = "none"
    /\ DestA \o <<Member>> \in DOMAIN fs0.files
    /\ fs.files[DestA \o <<Member>>] = Call.download_path
    /\ TmpFile \in DOMAIN fs0.files

\* the destination of call c holds what c fetched
HoldsOwn(c) ==
    LET p == IF c.zipfile THEN join(DestPath(c), Member) ELSE DestPath(c)
        r == Resolve(fs.dirs, p)
    IN  /\ r[1] /\ r[2] \in DOMAIN fs.files
        /\ fs.files[r[2]] = _convert_url_to_downloadable(c.url).val

BothDone == \A p \in Callers : calls[p].pc = "done"
\* each call ended as it would have alone, and where that is a success its
\* destination holds what it fetched
NoInterference ==
    \A p \in Callers :
        LET alone == download_file(fs0, calls[p])[2].res
        IN  /\ calls[p].res = alone
            /\ alone.exc = "none" => HoldsOwn(calls[p])

\* C10 as claimed: two calls at once with different destinations do not
\* interfere, in single-file mode and in archive mode.
C10_NoInterference ==
    (BothDone /\ DestPath(calls[1]) # DestPath(calls[2])) => NoInterference

\* where C10 does hold: ~/data and ~/tmp exist before the calls and at most
\* one of the calls is in archive mode
C10_NoInterferenceOneArchive ==
    (/\ BothDone /\ DestPath(calls[1]) # DestPath(calls[2])
     /\ isdir(fs0.dirs, DataDir) /\ isdir(fs0.dirs, TmpDir)
     /\ ~(calls[1].zipfile /\ calls[2].zipfile)) => NoInterference

====
